---- MODULE Spec2Model ----
(***************************************************************************)
(* A model of graphslam.pose.se2.PoseSE2: a pose (x, y, theta) of SE(2)    *)
(* stored in a three element float array, with its conversions to and from *)
(* the homogeneous matrix and its group operations.                        *)
(*                                                                         *)
(* Numbers.  The arithmetic is exact and is carried out on the subgroup of *)
(* SE(2) that integers can represent: coordinates are integers and an      *)
(* angle is an integer number of quarter turns (the angle k stands for     *)
(* k * pi/2), so that cos and sin take the values -1, 0, 1 and the range   *)
(* (-pi, pi] of atan2 is -1 .. 2.  Floating point rounding is not          *)
(* modelled; "within tolerance" reads "equal".                             *)
(*                                                                         *)
(* Arrays.  A numpy array is a sequence; the code's index i is the         *)
(* sequence index i + 1.  A value handed to np.array is a record           *)
(* [nd, v]: nd = 0 for a scalar, nd = 1 for an array of shape (1,).        *)
(***************************************************************************)
EXTENDS Integers, Sequences, FiniteSets, TLC

\* Bounds of the model.
MaxCoord == 1
MaxTurn == 2

\* An element written into a returned array; it is no coordinate or angle
\* of a constructed pose, so a write is always visible.
Poison == 2 * (MaxCoord + MaxTurn) + 1

Names == {"p1", "p2"}
Coords == (-MaxCoord) .. MaxCoord
Turns == (-MaxTurn) .. MaxTurn

\* The positions a pose is constructed with: the lattice points at most
\* MaxCoord steps from the origin, a set that quarter turns map onto itself.
Abs(n) == IF n < 0 THEN -n ELSE n
Positions == {xy \in Coords \X Coords : Abs(xy[1]) + Abs(xy[2]) <= MaxCoord}

VARIABLES
    pose,         \* the buffer of each constructed pose object, or <<>>
    orig,         \* the (x, y, theta) each pose was constructed with
    ret,          \* what the last operation returned (or raised)
    lastOp,       \* the last operation and its operands
    numpyLegacy   \* the numpy build: does np.array unwrap (1,) arrays

vars == <<pose, orig, ret, lastOp, numpyLegacy>>

----------------------------------------------------------------------------
\* numpy and math

\* np.cos, np.sin of an angle of k quarter turns
Cos(k) == CASE k % 4 = 0 -> 1 [] k % 4 = 1 -> 0 [] k % 4 = 2 -> -1 [] OTHER -> 0

Sin(k) == CASE k % 4 = 0 -> 0 [] k % 4 = 1 -> 1 [] k % 4 = 2 -> 0 [] OTHER -> -1

\* math.atan2(s, c), in quarter turns, for a direction on an axis;
\* atan2(0, 0) = 0 and the result lies in (-pi, pi]
Atan2(s, c) ==
    CASE s = 0 /\ c >= 0 -> 0
      [] s > 0 -> 1
      [] s = 0 /\ c < 0 -> 2
      [] OTHER -> -1

Scalar(v) == [nd |-> 0, v |-> v]

\* np.cos([t]): the cosine of a list is an array of shape (1,)
CosOfList(t) == [nd |-> 1, v |-> Cos(t)]

\* broadcasting: a - b * c with c possibly of shape (1,)
SubMul(a, b, c) == [nd |-> c.nd, v |-> a - b * c.v]

\* np.array([e1, e2, e3], dtype=np.float64): with scalars only, the array of
\* them.  With an element of shape (1,) the list is ragged: a legacy numpy
\* converts that element with float(), a current numpy raises ValueError.
NpArrayFloat64(elems) ==
    IF \A i \in 1..Len(elems) : elems[i].nd = 0
    THEN [ok |-> TRUE, data |-> [i \in 1..Len(elems) |-> elems[i].v]]
    ELSE IF numpyLegacy
         THEN [ok |-> TRUE, data |-> [i \in 1..Len(elems) |-> elems[i].v]]
         ELSE [ok |-> FALSE, data |-> <<>>]

\* np.dot of two 3x3 matrices
Dot(A, B) ==
    [i \in 1..3 |-> [j \in 1..3 |->
        A[i][1] * B[1][j] + A[i][2] * B[2][j] + A[i][3] * B[3][j]]]

Det(A) ==
      A[1][1] * (A[2][2] * A[3][3] - A[2][3] * A[3][2])
    - A[1][2] * (A[2][1] * A[3][3] - A[2][3] * A[3][1])
    + A[1][3] * (A[2][1] * A[3][2] - A[2][2] * A[3][1])

\* the 2x2 minor of A without row i and column j
Minor(A, i, j) ==
    LET r == IF i = 1 THEN <<2, 3>> ELSE IF i = 2 THEN <<1, 3>> ELSE <<1, 2>>
        c == IF j = 1 THEN <<2, 3>> ELSE IF j = 2 THEN <<1, 3>> ELSE <<1, 2>>
    IN  A[r[1]][c[1]] * A[r[2]][c[2]] - A[r[1]][c[2]] * A[r[2]][c[1]]

\* np.linalg.inv of a 3x3 matrix of determinant 1 or -1: adjugate / det
LinalgInv(A) ==
    [i \in 1..3 |-> [j \in 1..3 |->
        (IF (i + j) % 2 = 0 THEN 1 ELSE -1) * Minor(A, j, i) * Det(A)]]

Identity3 == <<<<1, 0, 0>>, <<0, 1, 0>>, <<0, 0, 1>>>>

----------------------------------------------------------------------------
\* PoseSE2, on the contents of the pose's array

\* PoseSE2.__new__(position, orientation)
PoseSE2(position, orientation) ==
    NpArrayFloat64(<<position[1], position[2], orientation>>)

\* PoseSE2.to_matrix
to_matrix(self) ==
    << <<Cos(self[3]), -Sin(self[3]), self[1]>>,
       <<Sin(self[3]), Cos(self[3]), self[2]>>,
       <<0, 0, 1>> >>

\* from_matrix with the arguments of atan2 exchanged
from_matrix_swapped(matrix) ==
    PoseSE2(<<Scalar(matrix[1][3]), Scalar(matrix[2][3])>>,
            Scalar(Atan2(matrix[1][1], matrix[2][1])))

\* PoseSE2.from_matrix
from_matrix(matrix) ==
    PoseSE2(<<Scalar(matrix[1][3]), Scalar(matrix[2][3])>>,
            Scalar(Atan2(matrix[2][1], matrix[1][1])))

\* PoseSE2.orientation
orientation(self) == self[3]

\* PoseSE2.inverse
inverse(self) ==
    PoseSE2(<<Scalar(-self[1] * Cos(self[3]) - self[2] * Sin(self[3])),
              SubMul(self[1] * Sin(self[3]), self[2], CosOfList(self[3]))>>,
            Scalar(-self[3]))

\* __add__ with its operands exchanged
add_swapped(self, other) ==
    PoseSE2(<<Scalar(other[1] + self[1] * Cos(other[3]) - self[2] * Sin(other[3])),
              Scalar(other[2] + self[1] * Sin(other[3]) + self[2] * Cos(other[3]))>>,
            Scalar(self[3] + other[3]))

\* __add__ with the sign of the sine term of y wrong
add_sinsign(self, other) ==
    PoseSE2(<<Scalar(self[1] + other[1] * Cos(self[3]) - other[2] * Sin(self[3])),
              Scalar(self[2] - other[1] * Sin(self[3]) + other[2] * Cos(self[3]))>>,
            Scalar(self[3] + other[3]))

\* __add__ rotating by the angle of the sum instead of the angle of self
add_sumangle(self, other) ==
    PoseSE2(<<Scalar(self[1] + other[1] * Cos(self[3] + other[3])
                             - other[2] * Sin(self[3] + other[3])),
              Scalar(self[2] + other[1] * Sin(self[3] + other[3])
                             + other[2] * Cos(self[3] + other[3]))>>,
            Scalar(self[3] + other[3]))

\* __add__ as the sum of the two arrays, without the rotation
add_elementwise(self, other) ==
    PoseSE2(<<Scalar(self[1] + other[1]), Scalar(self[2] + other[2])>>,
            Scalar(self[3] + other[3]))

\* __add__ normalising the angle of the result into (-pi, pi]
add_wrapped(self, other) ==
    PoseSE2(<<Scalar(self[1] + other[1] * Cos(self[3]) - other[2] * Sin(self[3])),
              Scalar(self[2] + other[1] * Sin(self[3]) + other[2] * Cos(self[3]))>>,
            Scalar(Atan2(Sin(self[3] + other[3]), Cos(self[3] + other[3]))))

\* PoseSE2.__add__
add(self, other) ==
    PoseSE2(<<Scalar(self[1] + other[1] * Cos(self[3]) - other[2] * Sin(self[3])),
              Scalar(self[2] + other[1] * Sin(self[3]) + other[2] * Cos(self[3]))>>,
            Scalar(self[3] + other[3]))

\* PoseSE2.__sub__: other.inverse + self; an exception of inverse propagates
sub(self, other) ==
    LET inv == inverse(other)
    IN  IF inv.ok THEN add(inv.data, self) ELSE inv

----------------------------------------------------------------------------
\* Returned objects.  base is the pose whose buffer the object shares, or
\* "own" for an object with a buffer of its own.

\* np.array(obj): a copy
NpArrayCopy(val) == [kind |-> "array", val |-> val, base |-> "own"]

\* to_array returning a view of the pose (np.asarray) instead of a copy
to_array_view(p) == [kind |-> "array", val |-> pose[p], base |-> p]

\* PoseSE2.to_array
to_array(p) == NpArrayCopy(pose[p])

\* PoseSE2.to_compact
to_compact(p) == NpArrayCopy(pose[p])

\* PoseSE2.position: np.array(self[:2])
position(p) == NpArrayCopy(SubSeq(pose[p], 1, 2))

\* a pose returned by an operation: a new object, or the exception
NewPose(r) ==
    IF r.ok THEN [kind |-> "pose", val |-> r.data, base |-> "own"]
    ELSE [kind |-> "ValueError", val |-> <<>>, base |-> "own"]

Op(o, a, b, src) == [op |-> o, a |-> a, b |-> b, src |-> src]

Constructed(p) == pose[p] # <<>>

----------------------------------------------------------------------------
Init ==
    /\ pose = [p \in Names |-> <<>>]
    /\ orig = [p \in Names |-> <<>>]
    /\ ret = [kind |-> "none", val |-> <<>>, base |-> "own"]
    /\ lastOp = Op("none", "p1", "p1", "none")
    /\ numpyLegacy \in BOOLEAN

\* p = PoseSE2([x, y], th)
Construct(p) ==
    /\ ~Constructed(p)
    /\ \E xy \in Positions, th \in Turns :
        LET r == PoseSE2(<<Scalar(xy[1]), Scalar(xy[2])>>, Scalar(th))
        IN  /\ pose' = [pose EXCEPT ![p] = r.data]
            /\ orig' = [orig EXCEPT ![p] = <<xy[1], xy[2], th>>]
    /\ ret' = [kind |-> "none", val |-> <<>>, base |-> "own"]
    /\ lastOp' = Op("new", p, p, "none")
    /\ UNCHANGED numpyLegacy

ToArray(p) ==
    /\ Constructed(p)
    /\ ret' = to_array(p)
    /\ lastOp' = Op("to_array", p, p, "none")
    /\ UNCHANGED <<pose, orig, numpyLegacy>>

ToCompact(p) ==
    /\ Constructed(p)
    /\ ret' = to_compact(p)
    /\ lastOp' = Op("to_compact", p, p, "none")
    /\ UNCHANGED <<pose, orig, numpyLegacy>>

Position(p) ==
    /\ Constructed(p)
    /\ ret' = position(p)
    /\ lastOp' = Op("position", p, p, "none")
    /\ UNCHANGED <<pose, orig, numpyLegacy>>

Orientation(p) ==
    /\ Constructed(p)
    /\ ret' = [kind |-> "scalar", val |-> orientation(pose[p]), base |-> "own"]
    /\ lastOp' = Op("orientation", p, p, "none")
    /\ UNCHANGED <<pose, orig, numpyLegacy>>

ToMatrix(p) ==
    /\ Constructed(p)
    /\ ret' = [kind |-> "matrix", val |-> to_matrix(pose[p]), base |-> "own"]
    /\ lastOp' = Op("to_matrix", p, p, "none")
    /\ UNCHANGED <<pose, orig, numpyLegacy>>

\* np.dot(a.to_matrix(), b.to_matrix())
MatrixProduct(a, b) ==
    /\ Constructed(a) /\ Constructed(b)
    /\ ret' = [kind |-> "matrix",
               val |-> Dot(to_matrix(pose[a]), to_matrix(pose[b])),
               base |-> "own"]
    /\ lastOp' = Op("dot", a, b, "none")
    /\ UNCHANGED <<pose, orig, numpyLegacy>>

\* PoseSE2.from_matrix(m) of the matrix just computed
FromMatrix ==
    /\ ret.kind = "matrix"
    /\ ret' = NewPose(from_matrix(ret.val))
    /\ lastOp' = Op("from_matrix", lastOp.a, lastOp.b, lastOp.op)
    /\ UNCHANGED <<pose, orig, numpyLegacy>>

Inverse(p) ==
    /\ Constructed(p)
    /\ ret' = NewPose(inverse(pose[p]))
    /\ lastOp' = Op("inverse", p, p, "none")
    /\ UNCHANGED <<pose, orig, numpyLegacy>>

\* a + b
Add(a, b) ==
    /\ Constructed(a) /\ Constructed(b)
    /\ ret' = NewPose(add(pose[a], pose[b]))
    /\ lastOp' = Op("add", a, b, "none")
    /\ UNCHANGED <<pose, orig, numpyLegacy>>

\* a - b
Sub(a, b) ==
    /\ Constructed(a) /\ Constructed(b)
    /\ ret' = NewPose(sub(pose[a], pose[b]))
    /\ lastOp' = Op("sub", a, b, "none")
    /\ UNCHANGED <<pose, orig, numpyLegacy>>

\* arr[i] = Poison on the array that to_array, to_compact or position
\* returned; the write reaches every object that shares the buffer
SetItem(i) ==
    /\ ret.kind = "array"
    /\ i \in 1..Len(ret.val)
    /\ ret.val[i] # Poison
    /\ ret' = [ret EXCEPT !.val[i] = Poison]
    /\ pose' = IF ret.base = "own" THEN pose
               ELSE [pose EXCEPT ![ret.base][i] = Poison]
    /\ UNCHANGED <<orig, lastOp, numpyLegacy>>

Next ==
    \/ \E p \in Names : Construct(p)
    \/ \E p \in Names : ToArray(p)
    \/ \E p \in Names : ToCompact(p)
    \/ \E p \in Names : Position(p)
    \/ \E p \in Names : Orientation(p)
    \/ \E p \in Names : ToMatrix(p)
    \/ \E a \in Names, b \in Names : MatrixProduct(a, b)
    \/ FromMatrix
    \/ \E p \in Names : Inverse(p)
    \/ \E a \in Names, b \in Names : Add(a, b)
    \/ \E a \in Names, b \in Names : Sub(a, b)
    \/ \E i \in 1..3 : SetItem(i)

Spec == Init /\ [][Next]_vars
----------------------------------------------------------------------------
\* Properties

\* the operands of the last operation
OperandA == pose[lastOp.a]
OperandB == pose[lastOp.b]

\* the angle lies in the range (-pi, pi] of atan2
Principal(k) == k \in (-1) .. 2

\* a rotation that is no multiple of a full turn, a translation that is not 0
Rotates(p) == p[3] % 4 # 0
Translates(p) == p[1] # 0 \/ p[2] # 0

\* C1: p1 + p2 is the pose (x1 + x2 cos th1 - y2 sin th1,
\* y1 + x2 sin th1 + y2 cos th1, th1 + th2), and its matrix is the product
\* to_matrix(p1) . to_matrix(p2), p1 on the left.
C1_AddIsMatrixProduct ==
    lastOp.op = "add" =>
        LET s == OperandA
            o == OperandB
        IN  /\ ret.kind = "pose"
            /\ ret.val = << s[1] + o[1] * Cos(s[3]) - o[2] * Sin(s[3]),
                            s[2] + o[1] * Sin(s[3]) + o[2] * Cos(s[3]),
                            s[3] + o[3] >>
            /\ to_matrix(ret.val) = Dot(to_matrix(s), to_matrix(o))

C1_Witness ==
    /\ lastOp.op = "add"
    /\ ret.kind = "pose"
    /\ lastOp.a # lastOp.b
    /\ Rotates(OperandA) /\ Translates(OperandA)
    /\ Translates(OperandB) /\ Rotates(OperandB)
    /\ to_matrix(ret.val) # Dot(to_matrix(OperandB), to_matrix(OperandA))

\* C2: p.inverse is a pose of three scalars
\* (-x cos th - y sin th, x sin th - y cos th, -th) and its matrix is the
\* inverse of to_matrix(p): to_matrix(p.inverse) . to_matrix(p) = I.
C2_InverseIsMatrixInverse ==
    lastOp.op = "inverse" =>
        LET s == OperandA
        IN  /\ ret.kind = "pose"
            /\ ret.val = << -s[1] * Cos(s[3]) - s[2] * Sin(s[3]),
                            s[1] * Sin(s[3]) - s[2] * Cos(s[3]),
                            -s[3] >>
            /\ to_matrix(ret.val) = LinalgInv(to_matrix(s))
            /\ Dot(to_matrix(ret.val), to_matrix(s)) = Identity3

\* C3: p1 - p2 is p2.inverse + p1, and its matrix is
\* inv(to_matrix(p2)) . to_matrix(p1).
C3_SubIsInverseProduct ==
    lastOp.op = "sub" =>
        /\ ret.kind = "pose"
        /\ to_matrix(ret.val) =
               Dot(LinalgInv(to_matrix(OperandB)), to_matrix(OperandA))

\* C4: from_matrix(to_matrix(p)) has the x and y of p and the angle of p
\* wrapped into (-pi, pi]: it is p when the angle of p lies in that range,
\* and otherwise a pose of another angle and of the same matrix.
C4_MatrixRoundTrip ==
    (lastOp.op = "from_matrix" /\ lastOp.src = "to_matrix") =>
        LET p == OperandA
            q == ret.val
        IN  /\ ret.kind = "pose"
            /\ q[1] = p[1] /\ q[2] = p[2]
            /\ Principal(q[3])
            /\ (q[3] - p[3]) % 4 = 0
            /\ Cos(q[3]) = Cos(p[3]) /\ Sin(q[3]) = Sin(p[3])
            /\ Principal(p[3]) => q = p
            /\ ~Principal(p[3]) => (q[3] # p[3] /\ to_matrix(q) = to_matrix(p))

C4_Witness ==
    /\ lastOp.op = "from_matrix" /\ lastOp.src = "to_matrix"
    /\ ret.kind = "pose"
    /\ ~Principal(OperandA[3])
    /\ Translates(OperandA)
    /\ ret.val # OperandA

\* C5 as stated: p1 + p2 equals from_matrix(to_matrix(p1) . to_matrix(p2))
\* in x, y and theta, for all poses p1 and p2.
C5_AddEqualsFromMatrixOfProduct ==
    lastOp.op = "add" =>
        /\ ret.kind = "pose"
        /\ ret.val = from_matrix(Dot(to_matrix(OperandA), to_matrix(OperandB))).data

\* C5 amended: p1 + p2 equals from_matrix(to_matrix(p1) . to_matrix(p2)) in
\* x and y; the angles are equal when th1 + th2 lies in (-pi, pi] and differ
\* by a non-zero multiple of 2 pi otherwise.
C5_AddEqualsFromMatrixUpToWrap ==
    lastOp.op = "add" =>
        LET e == from_matrix(Dot(to_matrix(OperandA), to_matrix(OperandB))).data
            th == OperandA[3] + OperandB[3]
        IN  /\ ret.kind = "pose"
            /\ ret.val[1] = e[1] /\ ret.val[2] = e[2]
            /\ (ret.val[3] - e[3]) % 4 = 0
            /\ Principal(th) => ret.val = e
            /\ ~Principal(th) => ret.val[3] # e[3]

C5_Witness ==
    /\ lastOp.op = "add"
    /\ ret.kind = "pose"
    /\ ~Principal(OperandA[3] + OperandB[3])
    /\ Principal(OperandA[3]) /\ Principal(OperandB[3])
    /\ Translates(OperandB) /\ Rotates(OperandA)

\* C6: p - p is the identity pose: x = 0, y = 0 and the angle 0 modulo 2 pi.
C6_SubSelfIsIdentity ==
    (lastOp.op = "sub" /\ lastOp.a = lastOp.b) =>
        /\ ret.kind = "pose"
        /\ ret.val[1] = 0 /\ ret.val[2] = 0
        /\ ret.val[3] % 4 = 0

\* C7: Pose((0,0),0) + p = p and p + Pose((0,0),0) = p, in all three
\* components, the angle unchanged.
C7_ZeroIsTwoSidedIdentity ==
    lastOp.op = "add" =>
        /\ OperandA = <<0, 0, 0>> => (ret.kind = "pose" /\ ret.val = OperandB)
        /\ OperandB = <<0, 0, 0>> => (ret.kind = "pose" /\ ret.val = OperandA)

C7_Witness ==
    /\ lastOp.op = "add"
    /\ OperandA = <<0, 0, 0>>
    /\ Translates(OperandB) /\ ~Principal(OperandB[3])
    /\ ret.kind = "pose" /\ ret.val = OperandB

\* C8 as stated: the positions of p1 + p2 and p2 + p1 differ whenever
\* p1 # p2 and rotation and translation are both non-trivial.
C8_DifferWheneverNonTrivial ==
    (/\ lastOp.op = "add"
     /\ OperandA # OperandB
     /\ Rotates(OperandA) /\ Translates(OperandA)
     /\ Rotates(OperandB) /\ Translates(OperandB)) =>
        LET r == add(OperandB, OperandA).data
        IN  ret.val[1] # r[1] \/ ret.val[2] # r[2]

\* C8 amended: there are poses p1 # p2 with p1 + p2 # p2 + p1; the angles of
\* p1 + p2 and p2 + p1 are always equal, and the positions differ whenever
\* one pose is a translation by a non-zero vector without rotation and the
\* other rotates.
C8_NotCommutative ==
    /\ \E x \in Coords, th \in Turns :
           LET a == <<x, 0, 0>>
               b == <<0, 0, th>>
           IN  a # b /\ add(a, b).data # add(b, a).data
    /\ lastOp.op = "add" =>
        LET r == add(OperandB, OperandA).data
        IN  /\ ret.val[3] = r[3]
            /\ (~Rotates(OperandA) /\ Translates(OperandA) /\ Rotates(OperandB))
                   => (ret.val[1] # r[1] \/ ret.val[2] # r[2])

C8_Witness ==
    /\ lastOp.op = "add"
    /\ ret.kind = "pose"
    /\ OperandA # OperandB
    /\ ~Rotates(OperandA) /\ Translates(OperandA)
    /\ Rotates(OperandB) /\ Translates(OperandB)
    /\ ret.val # add(OperandB, OperandA).data

====
